---- MODULE Spec2Model ----
(***************************************************************************)
(* Model of projection_subtraction.py: the orchestrator (main), the        *)
(* per-stack producer and consumer threads, the shared worker pool, the    *)
(* I/O semaphore, and the shape arithmetic of the subtraction kernel.      *)
(*                                                                         *)
(* Origin shifts are kept in half pixels (the integer h stands for h/2),   *)
(* so that numpy's round-half-to-even is modelled on values that have a    *)
(* fractional part.  In the pipeline (Spec) images are modelled by their   *)
(* shape; KernelSpec runs one kernel call on pixel values.                 *)
(***************************************************************************)
EXTENDS Integers, Sequences, FiniteSets, TLC

\* ------------------------------------------------------------------ bounds
MaxParticles == 3       \* longest catalog of the grouping family
MaxGate == 2            \* largest --io-thread-pairs
MaxQueue == 2           \* largest --io-queue-length
MaxThreads == 2         \* largest --threads (pool workers)
MaxBox == 6             \* largest image / volume side
MaxCrop == 4            \* largest --crop
MaxFaults == 1          \* kernel calls that may raise an Exception in one run
MaxShifted == 2         \* longest catalog of the numeric family
MaxPooled == 2          \* longest catalog that is run with more than one worker
MaxStack == 4           \* longest single stack

\* an option that was not given (Python's None); a given --crop c is <<c>>
None == <<>>

\* ------------------------------------------------------- paths of the catalog
\* A stack path is <<directory, file name>>; strings are ordered by their rank.
Dirs == <<"a", "b", "dest">>
Names == <<"x", "y", "z">>
Paths == {<<"a", "x">>, <<"b", "x">>, <<"a", "y">>, <<"a", "z">>}

Rank(s, str) == CHOOSE i \in 1..Len(s) : s[i] = str

\* string order of two stack paths, as sort_values / groupby order their keys
PathLess(p, q) ==
    \/ Rank(Dirs, p[1]) < Rank(Dirs, q[1])
    \/ p[1] = q[1] /\ Rank(Names, p[2]) < Rank(Names, q[2])

\* os.path.join(args.dest, args.prefix + os.path.basename(x).replace(...)):
\* the directory of the source path is dropped, its file name kept
DestPath(p) == <<"dest", p[2]>>

\* ------------------------------------------------------------ helpers
RECURSIVE Flatten(_)
Flatten(ss) == IF ss = <<>> THEN <<>> ELSE Head(ss) \o Flatten(Tail(ss))

\* the elements of a finite set of paths in increasing string order
RECURSIVE SortedPaths(_)
SortedPaths(S) ==
    IF S = {} THEN <<>>
    ELSE LET m == CHOOSE p \in S : \A q \in S \ {p} : PathLess(p, q)
         IN  <<m>> \o SortedPaths(S \ {m})

Abs(x) == IF x < 0 THEN -x ELSE x
Max(S) == CHOOSE m \in S : \A x \in S : x <= m

\* ------------------------------------------------------------ the catalog
\* df.sort_values(IMAGE_ORIGINAL_PATH, kind="mergesort"): stable, so the rows
\* of one source path keep their order of arrival
SortValues(cat) ==
    LET keys == SortedPaths({cat[k].opath : k \in 1..Len(cat)})
    IN  Flatten([j \in 1..Len(keys) |->
                    SelectSeq(cat, LAMBDA row : row.opath = keys[j])])

\* gb.cumcount() of the groupby over IMAGE_ORIGINAL_PATH: the number of earlier
\* rows with the same source path
CumCount(rows, k) == Cardinality({j \in 1..(k - 1) : rows[j].opath = rows[k].opath})

\* the data frame after lines 84-91: sorted, IMAGE_INDEX and IMAGE_PATH rewritten
Reindexed(cat) ==
    LET rows == SortValues(cat)
    IN  [k \in 1..Len(rows) |->
            [opath |-> rows[k].opath, oidx |-> rows[k].oidx,
             ox |-> rows[k].ox, oy |-> rows[k].oy,
             index |-> CumCount(rows, k), path |-> DestPath(rows[k].opath)]]

\* df.groupby(IMAGE_PATH): the destination paths in key order, and the rows of
\* one destination in data-frame order
GroupKeys(frame) == SortedPaths({frame[k].path : k \in 1..Len(frame)})
GroupRows(frame, key) == SelectSeq(frame, LAMBDA row : row.path = key)

\* ------------------------------------------------------------ numerics
\* np.round on a value given in half units: halves go to the even integer
RoundHalfEven(h) ==
    IF h % 2 = 0 THEN h \div 2
    ELSE LET lo == (h - 1) \div 2 IN IF lo % 2 = 0 THEN lo ELSE lo + 1

\* maxshift = np.round(np.max(np.abs(df[star.Relion.ORIGINS].values)))
MaxShiftOf(frame) ==
    RoundHalfEven(Max({Abs(frame[k].ox) : k \in 1..Len(frame)}
                      \cup {Abs(frame[k].oy) : k \in 1..Len(frame)}))

\* a pre-flight test that counts the largest shift once, not on both sides
CropTooLargeLenient(crop, boxsz, maxshift) == crop # None /\ boxsz < maxshift + crop[1]

\* the pre-flight test of line 114
CropTooLarge(crop, boxsz, maxshift) == crop # None /\ boxsz < 2 * maxshift + crop[1]

\* length of a[start:stop] for an axis of length n (Python slice semantics)
PySliceLen(n, start, stop) ==
    LET norm(i) == IF i < 0 THEN (IF n + i < 0 THEN 0 ELSE n + i)
                   ELSE (IF i > n THEN n ELSE i)
        lo == norm(start)
        hi == norm(stop)
    IN  IF hi > lo THEN hi - lo ELSE 0

Shape(r, c) == [kind |-> "ok", rows |-> r, cols |-> c]
SysExit == [kind |-> "exit", rows |-> 0, cols |-> 0]
Raised == [kind |-> "error", rows |-> 0, cols |-> 0]

\* numpy broadcasting of two 2-d shapes in an elementwise operation
Broadcast(a, b) ==
    LET dim(x, y) == IF x = y THEN x ELSE IF x = 1 THEN y ELSE IF y = 1 THEN x ELSE -1
    IN  IF a.kind # "ok" THEN a
        ELSE IF b.kind # "ok" THEN b
        ELSE IF dim(a.rows, b.rows) < 0 \/ dim(a.cols, b.cols) < 0 THEN Raised
        ELSE Shape(dim(a.rows, b.rows), dim(a.cols, b.cols))

\* clip_img(img, new_dim) on an image of the given shape
clip_img(img, new_dim) ==
    LET n_img == img.rows
        clip_n == (n_img - new_dim) \div 2
    IN  IF n_img = new_dim THEN img
        ELSE IF n_img % 2 > 0 \/ new_dim % 2 > 0 THEN SysExit
        ELSE Shape(PySliceLen(img.rows, clip_n, -clip_n),
                   PySliceLen(img.cols, clip_n, -clip_n))

\* zero_pad(img, n_max); np.pad refuses a negative pad width
zero_pad(img, n_max) ==
    LET n_img == img.rows
        n_pad == (n_max - n_img) \div 2
    IN  IF n_img = n_max THEN img
        ELSE IF n_img % 2 > 0 \/ n_max % 2 > 0 THEN SysExit
        ELSE IF n_pad < 0 THEN Raised
        ELSE Shape(img.rows + 2 * n_pad, img.cols + 2 * n_pad)

\* the crop of lines 391-396
CropImage(img, crop, ox, oy) ==
    LET orihalf == img.rows \div 2
        newhalf == crop \div 2
        x == orihalf - RoundHalfEven(ox)
        y == orihalf - RoundHalfEven(oy)
    IN  Shape(PySliceLen(img.rows, y - newhalf, y + newhalf),
              PySliceLen(img.cols, x - newhalf, x + newhalf))

\* subtract_outer on an n x n image, an m x m mask and a volume of box size
\* boxsz: the outcome is the shape of the returned image, SystemExit raised by
\* sys.exit, or an Exception.  irfft2 of the (boxsz, boxsz//2+1) slice gives
\* a (boxsz, 2*(boxsz//2)) image.
subtract_outer(n, m, boxsz, ox, oy, crop) ==
    LET p1r == Shape(n, n)
        p1r_clipped == Broadcast(clip_img(p1r, m), Shape(m, m))
        p1sr == zero_pad(Shape(boxsz, 2 * (boxsz \div 2)), n)
        new_image == Broadcast(p1r, p1sr)
    IN  IF p1r_clipped.kind # "ok" THEN p1r_clipped
        ELSE IF new_image.kind # "ok" THEN new_image
        ELSE IF crop # None THEN CropImage(new_image, crop[1], ox, oy)
        ELSE new_image

\* ------------------------------------------------------------ pixel data
\* The kernel on pixel values, for a volume of box size 2 with no reference map
\* (coefs_method = 0) and whole-pixel origin shifts: the frequencies are 0 and
\* 1/2, the phase ramp is +1 or -1 and the transforms of a 2 x 2 box are sums
\* and differences, so every value is an integer.  An array is a sequence of
\* rows.
\* a * b of two arrays of one shape
Times(a, b) == [r \in 1..Len(a) |-> [c \in 1..Len(a[r]) |-> a[r][c] * b[r][c]]]

Sign(e) == IF e % 2 = 0 THEN 1 ELSE -1

\* a[start:stop] of a sequence, with Python's slice semantics
PySlice(a, start, stop) ==
    LET n == Len(a)
        norm(i) == IF i < 0 THEN (IF n + i < 0 THEN 0 ELSE n + i)
                   ELSE (IF i > n THEN n ELSE i)
    IN  IF norm(stop) > norm(start) THEN SubSeq(a, norm(start) + 1, norm(stop)) ELSE <<>>

\* the central slice of the Fourier volume at the particle's orientation; the
\* volume is given by the amplitude of its central section for each pose
interpolate_slice_numba(submap_ft, pose) == [r \in 1..2 |-> [c \in 1..2 |-> submap_ft[pose]]]

\* the transfer function on the frequency grid, one value for a given defocus
eval_ctf(def1) == [r \in 1..2 |-> [c \in 1..2 |-> def1]]

\* lines 404-411 with coefs_method = 0: p1s = p2 * pshift * c, where
\* pshift = exp(-2 pi i (-xshift sx - yshift sy)) on sx in {0, 1/2}, sy in {0, -1/2}
subtract(submap_ft, pose, def1, xshift, yshift) ==
    LET c == eval_ctf(def1)
        pshift == [r \in 1..2 |-> [k \in 1..2 |-> Sign(xshift * (k - 1) + yshift * (r - 1))]]
        p2 == Times(interpolate_slice_numba(submap_ft, pose), pshift)
    IN  Times(p2, c)

\* the inverse real transform of a 2 x 2 spectrum
irfft2(p1s) ==
    [a \in 1..2 |-> [b \in 1..2 |->
        (p1s[1][1] + Sign(b - 1) * p1s[1][2] + Sign(a - 1) * p1s[2][1]
            + Sign(a + b) * p1s[2][2]) \div 4]]

\* fftshift of an array of even sides: both axes rotated by half their length
fftshift(img) ==
    LET n == Len(img)
        rot(i) == ((i - 1 + n \div 2) % n) + 1
    IN  [r \in 1..n |-> [c \in 1..n |-> img[rot(r)][rot(c)]]]

\* np.pad(img, n_pad, 'constant', constant_values=0) of lines 259-261
Padded(img, n_max) ==
    LET n_pad == (n_max - Len(img)) \div 2
        inside(r, c) == r > n_pad /\ r <= n_pad + Len(img) /\ c > n_pad /\ c <= n_pad + Len(img)
    IN  [r \in 1..n_max |-> [c \in 1..n_max |->
            IF inside(r, c) THEN img[r - n_pad][c - n_pad] ELSE 0]]

\* img[clip_n:-clip_n, clip_n:-clip_n] of lines 239-242
Clipped(img, new_dim) ==
    LET clip_n == (Len(img) - new_dim) \div 2
    IN  IF Len(img) = new_dim THEN img
        ELSE [r \in 1..Len(PySlice(img, clip_n, -clip_n)) |->
                 PySlice(PySlice(img, clip_n, -clip_n)[r], clip_n, -clip_n)]

\* line 390 with its operands exchanged
ProjectionMinusImage(p1r, p1sr) ==
    [r \in 1..Len(p1r) |-> [c \in 1..Len(p1r[r]) |-> p1sr[r][c] - p1r[r][c]]]

\* line 390: new_image = p1r - p1sr
Subtracted(p1r, p1sr) ==
    [r \in 1..Len(p1r) |-> [c \in 1..Len(p1r[r]) |-> p1r[r][c] - p1sr[r][c]]]

\* lines 391-396 on pixel data
Cropped(img, crop, xshift, yshift) ==
    LET orihalf == Len(img) \div 2
        newhalf == crop \div 2
        x == orihalf - xshift
        y == orihalf - yshift
        rows == PySlice(img, y - newhalf, y + newhalf)
    IN  [r \in 1..Len(rows) |-> PySlice(rows[r], x - newhalf, x + newhalf)]

\* subtract_outer on pixel data: the call fails as the shapes make it fail,
\* and otherwise returns the image of lines 357-397
Pixels(p1r, p1rmask, ptcl, submap_ft, crop) ==
    LET outcome == subtract_outer(Len(p1r), Len(p1rmask), Len(p1rmask),
                                  2 * ptcl.x, 2 * ptcl.y, crop)
        p1r_clipped == Times(Clipped(p1r, Len(p1rmask)), p1rmask)
        p1s == subtract(submap_ft, ptcl.pose, ptcl.def1, ptcl.x, ptcl.y)
        p1sr == Padded(fftshift(irfft2(p1s)), Len(p1r))
        new_image == Subtracted(p1r, p1sr)
    IN  IF outcome.kind # "ok" THEN [kind |-> outcome.kind, img |-> <<>>]
        ELSE IF crop # None
             THEN [kind |-> "ok", img |-> Cropped(new_image, crop[1], ptcl.x, ptcl.y)]
             ELSE [kind |-> "ok", img |-> new_image]

\* ------------------------------------------------------------------ state
VARIABLES
    catalog,      \* the rows of the input star file, in file order
    args,         \* crop, io_thread_pairs, io_queue_length, threads
    sz,           \* box size of the subtraction volume (and side of the mask)
    side,         \* image side of every source stack
    df,           \* the data frame after sorting and re-indexing
    mpc,          \* main's position
    gi,           \* the group main is launching
    nj,           \* number of thread pairs main has to join
    status,       \* main's return value (-1: none yet)
    interrupted,  \* KeyboardInterrupt was delivered to main
    pool,         \* state of the worker pool
    taskq,        \* the pool's task queue
    fut,          \* the AsyncResult of every task
    wk,           \* the pool's worker threads
    faults,       \* kernel calls that raised an injected Exception
    tls,          \* the module-global thread-local holder: per worker, its attributes
    made,         \* per worker thread, how often it built each plan (2: more than once)
    sem,          \* free slots of the iothreads semaphore
    ppc, pk,      \* producers: position and current particle
    q,            \* the queue of every pipeline
    cpc, cur,     \* consumers: position and entry in hand
    wopen,        \* ZSliceWriter of the stack is open
    written,      \* images written to every stack
    call          \* one kernel call on pixel data: its arguments and its result

vars == <<catalog, args, sz, side, df, mpc, gi, nj, status, interrupted,
          pool, taskq, fut, wk, faults, tls, made, sem, ppc, pk, q, cpc, cur, wopen, written,
          call>>

inputs == <<catalog, args, sz, side, call>>
mainv == <<mpc, gi, nj, status, interrupted>>
poolv == <<pool, taskq, fut, wk, faults, tls, made>>
prodv == <<ppc, pk>>
consv == <<cpc, cur, wopen, written>>

\* ------------------------------------------------------------ derived
NG == Len(GroupKeys(df))
Groups == 1..NG
Particles(g) == GroupRows(df, GroupKeys(df)[g])
NP(g) == Len(Particles(g))
Workers == DOMAIN wk

PoisonPill == [i |-> -1, k |-> 0]
NoEntry == [i |-> -2, k |-> 0]
Pending == [st |-> "pending", rows |-> 0, cols |-> 0]
NotSubmitted == [st |-> "none", rows |-> 0, cols |-> 0]
\* a worker thread: its position, its task, and the local ft of line 354
New == [st |-> "new", g |-> 0, k |-> 0, ft |-> FALSE]
Idle == [st |-> "idle", g |-> 0, k |-> 0, ft |-> FALSE]
Dead == [st |-> "dead", g |-> 0, k |-> 0, ft |-> FALSE]
NoPlans == [ft |-> 0, ift |-> 0]

\* ------------------------------------------------------------ initial states
\* rows of a star file over the given source paths; the original index of a
\* row is its position among the rows of its source stack
RowsOf(ps, os) ==
    [k \in 1..Len(ps) |->
        [opath |-> ps[k],
         oidx |-> Cardinality({j \in 1..k : ps[j] = ps[k]}),
         ox |-> os[k][1], oy |-> os[k][2]]]

SeqsUpTo(S, n) == UNION {[1..m -> S] : m \in 1..n}

\* origin shifts (x, y) in half pixels
Origins == {<<0, 0>>, <<1, 0>>, <<-3, 0>>, <<2, -2>>}

\* The data frame depends on the catalog only through the rows of each source
\* path in their order of arrival, so of the catalogs that differ in how the
\* source paths are interleaved one is drawn: the one that lists the paths in
\* decreasing order, which sort_values has to reverse.
Decreasing(ps) == \A i \in 1..Len(ps), j \in 1..Len(ps) : i < j => ~PathLess(ps[i], ps[j])

\* (io_thread_pairs, io_queue_length, threads): each option is varied with the
\* other two at 1
ArgPoints ==
    {<<c, 1, 1>> : c \in 1..MaxGate} \cup {<<1, l, 1>> : l \in 1..MaxQueue}
        \cup {<<1, 1, t>> : t \in 1..MaxThreads}

\* catalogs over several stacks, no crop, every box of side 4; with more than
\* one slot every source stack is listed once, with more than one worker the
\* catalog is short
GroupingInputs ==
    /\ \E ps \in SeqsUpTo(Paths, MaxParticles) :
          /\ Decreasing(ps)
          /\ catalog = RowsOf(ps, [k \in 1..Len(ps) |-> <<0, 0>>])
    /\ \E a \in ArgPoints :
          /\ a[1] > 1 => \A k \in 1..Len(catalog) : catalog[k].oidx = 1
          /\ a[3] > 1 => Len(catalog) <= MaxPooled
          /\ args = [crop |-> None, io_thread_pairs |-> a[1], io_queue_length |-> a[2],
                     threads |-> a[3]]
    /\ sz = 4
    /\ side = [p \in Paths |-> 4]

\* one stack of a few particles; shifts, crop and box sizes vary
NumericInputs ==
    /\ \E os \in SeqsUpTo(Origins, MaxShifted) :
          catalog = RowsOf([k \in 1..Len(os) |-> <<"a", "x">>], os)
    /\ \E c \in {None} \cup {<<n>> : n \in 1..MaxCrop} :
          args = [crop |-> c, io_thread_pairs |-> 1, io_queue_length |-> 1, threads |-> 1]
    /\ sz \in 3..MaxBox
    /\ \E n \in 3..MaxBox : side = [p \in Paths |-> n]

\* one stack of up to MaxStack particles, no crop, every box of side 4
LongStackInputs ==
    /\ \E n \in 1..MaxStack :
          catalog = RowsOf([k \in 1..n |-> <<"a", "x">>], [k \in 1..n |-> <<0, 0>>])
    /\ \E a \in ArgPoints :
          args = [crop |-> None, io_thread_pairs |-> a[1], io_queue_length |-> a[2],
                  threads |-> a[3]]
    /\ sz = 4
    /\ side = [p \in Paths |-> 4]

\* the state at the entry of main
AtEntry ==
    /\ df = <<>>
    /\ mpc = "setup" /\ gi = 0 /\ nj = 0
    /\ status = -1 /\ interrupted = FALSE
    /\ pool = "none" /\ taskq = <<>> /\ fut = <<>> /\ wk = <<>> /\ faults = 0
    /\ tls = <<>> /\ made = <<>>
    /\ sem = 0
    /\ ppc = <<>> /\ pk = <<>> /\ q = <<>>
    /\ cpc = <<>> /\ cur = <<>> /\ wopen = <<>> /\ written = <<>>

Init == (GroupingInputs \/ NumericInputs \/ LongStackInputs) /\ AtEntry /\ call = None

\* ------------------------------------------------------------ main
\* lines 78-153: sort, re-index, group; the pre-flight crop test returns 1
Setup ==
    /\ mpc = "setup"
    /\ df' = Reindexed(catalog)
    /\ LET ng == Len(GroupKeys(df'))
           np(g) == Len(GroupRows(df', GroupKeys(df')[g]))
       IN  /\ fut' = [g \in 1..ng |-> [k \in 1..np(g) |-> NotSubmitted]]
           /\ ppc' = [g \in 1..ng |-> "unstarted"]
           /\ pk' = [g \in 1..ng |-> 1]
           /\ q' = [g \in 1..ng |-> <<>>]
           /\ cpc' = [g \in 1..ng |-> "unstarted"]
           /\ cur' = [g \in 1..ng |-> NoEntry]
           /\ wopen' = [g \in 1..ng |-> FALSE]
           /\ written' = [g \in 1..ng |-> <<>>]
    /\ IF CropTooLarge(args.crop, sz, MaxShiftOf(df'))
       THEN mpc' = "returned" /\ status' = 1
       ELSE mpc' = "pool" /\ status' = status
    /\ UNCHANGED <<inputs, gi, nj, interrupted, pool, taskq, wk, faults, tls, made, sem>>

\* lines 155-165: the semaphore, the pool and its worker threads, which are
\* started and have yet to run the initializer
CreatePool ==
    /\ mpc = "pool"
    /\ sem' = args.io_thread_pairs
    /\ pool' = "run"
    /\ wk' = [w \in 1..args.threads |-> New]
    /\ tls' = [w \in 1..args.threads |-> {}]
    /\ made' = [w \in 1..args.threads |-> NoPlans]
    /\ mpc' = "acquire" /\ gi' = 1
    /\ UNCHANGED <<inputs, df, nj, status, interrupted, taskq, fut, faults,
                   prodv, q, consv>>

\* an acquire that does not wait for a free slot
MainAcquireNoWait ==
    /\ mpc = "acquire"
    /\ sem' = sem - 1
    /\ mpc' = "start_cons"
    /\ UNCHANGED <<inputs, df, gi, nj, status, interrupted, poolv, prodv, q, consv>>

\* line 183: iothreads.acquire() blocks while no slot is free
MainAcquire ==
    /\ mpc = "acquire"
    /\ sem > 0
    /\ sem' = sem - 1
    /\ mpc' = "start_cons"
    /\ UNCHANGED <<inputs, df, gi, nj, status, interrupted, poolv, prodv, q, consv>>

\* line 186: cons.start(); the thread opens the writer of its stack (line 451)
MainStartCons ==
    /\ mpc = "start_cons"
    /\ cpc' = [cpc EXCEPT ![gi] = "get"]
    /\ wopen' = [wopen EXCEPT ![gi] = TRUE]
    /\ mpc' = "start_prod"
    /\ UNCHANGED <<inputs, df, gi, nj, status, interrupted, poolv, sem, prodv, q,
                   cur, written>>

\* line 188: prod.start(), then the next group or the join loop
MainStartProd ==
    /\ mpc = "start_prod"
    /\ ppc' = [ppc EXCEPT ![gi] = "submit"]
    /\ IF gi < NG
       THEN mpc' = "acquire" /\ gi' = gi + 1 /\ UNCHANGED nj
       ELSE mpc' = "join" /\ nj' = NG /\ gi' = gi
    /\ UNCHANGED <<inputs, df, status, interrupted, poolv, sem, pk, q, consv>>

\* lines 189-190: KeyboardInterrupt raised in main inside the try block, at
\* any point of the launch loop (a signal that arrives while acquire() blocks is
\* raised when it returns, that is at "start_cons"); the pair of the current
\* group is already in the thread list.  One interrupt per run.
Interrupt ==
    /\ mpc \in {"acquire", "start_cons", "start_prod"}
    /\ ~interrupted
    /\ interrupted' = TRUE
    /\ mpc' = "join" /\ nj' = gi
    /\ UNCHANGED <<inputs, df, gi, status, poolv, sem, prodv, q, consv>>

\* thread.join() of the j-th thread of the list (prod, cons of pair 1, prod,
\* cons of pair 2, ...) returns: the thread has ended, or it was never started
\* and the RuntimeError is logged
JoinReturns(j) ==
    LET g == (j + 1) \div 2
    IN  IF j % 2 = 1 THEN ppc[g] \in {"unstarted", "done", "dead"}
        ELSE cpc[g] \in {"unstarted", "done", "dead"}

\* pool.close() without the join loop
MainCloseWithoutJoin ==
    /\ mpc = "join"
    /\ pool' = "closed"
    /\ mpc' = "pjoin"
    /\ UNCHANGED <<inputs, df, gi, nj, status, interrupted, taskq, fut, wk, faults,
                   tls, made, sem, prodv, q, consv>>

\* lines 192-199: every join of the loop has returned; pool.close()
MainJoinAll ==
    /\ mpc = "join"
    /\ \A j \in 1..(2 * nj) : JoinReturns(j)
    /\ pool' = "closed"
    /\ mpc' = "pjoin"
    /\ UNCHANGED <<inputs, df, gi, nj, status, interrupted, taskq, fut, wk, faults,
                   tls, made, sem, prodv, q, consv>>

Outstanding == \E g \in Groups : \E k \in 1..NP(g) : fut[g][k].st = "pending"

\* lines 200-211: pool.join() returns once no result is outstanding; return 0
MainPoolJoin ==
    /\ mpc = "pjoin"
    /\ ~Outstanding
    /\ pool' = "terminated"
    /\ mpc' = "returned" /\ status' = 0
    /\ UNCHANGED <<inputs, df, gi, nj, interrupted, taskq, fut, wk, faults,
                   tls, made, sem, prodv, q, consv>>

\* ------------------------------------------------------------ producer
\* every source stack holds the images the catalog lists for it, numbered from 1
StackLen(p) == Cardinality({j \in 1..Len(catalog) : catalog[j].opath = p})

\* lines 427, 434: the image read for particle k of group g is the one at the
\* particle's original index in the stack of the group's first particle
ImageRead(g, k) == <<Particles(g)[1].opath, Particles(g)[k].oidx>>
InStack(im) == im[2] <= StackLen(im[1])

\* lines 427-440: read the image, pool.apply_async(subtract_outer, ...).  The
\* read of an index the opened stack does not hold raises, which ends the
\* thread, or returns other data; a pool that is no longer running refuses the
\* task and the thread ends
ProducerSubmit(g) ==
    /\ ppc[g] = "submit"
    /\ \E raises \in BOOLEAN :
          /\ raises => ~InStack(ImageRead(g, pk[g]))
          /\ IF pool = "run" /\ ~raises
             THEN /\ fut' = [fut EXCEPT ![g][pk[g]] = Pending]
                  /\ taskq' = Append(taskq, <<g, pk[g]>>)
                  /\ ppc' = [ppc EXCEPT ![g] = "put"]
             ELSE /\ ppc' = [ppc EXCEPT ![g] = "dead"]
                  /\ UNCHANGED <<fut, taskq>>
    /\ UNCHANGED <<inputs, df, mainv, pool, wk, faults, tls, made, sem, pk, q, consv>>

\* a put that does not wait for room in the queue
ProducerPutNoWait(g) ==
    /\ ppc[g] = "put"
    /\ q' = [q EXCEPT ![g] = Append(@, [i |-> Particles(g)[pk[g]].index, k |-> pk[g]])]
    /\ IF pk[g] < NP(g)
       THEN pk' = [pk EXCEPT ![g] = @ + 1] /\ ppc' = [ppc EXCEPT ![g] = "submit"]
       ELSE pk' = pk /\ ppc' = [ppc EXCEPT ![g] = "pill"]
    /\ UNCHANGED <<inputs, df, mainv, poolv, sem, consv>>

\* line 442: queue.put((IMAGE_INDEX, ri), block=True) blocks while the queue is full
ProducerPut(g) ==
    /\ ppc[g] = "put"
    /\ Len(q[g]) < args.io_queue_length
    /\ q' = [q EXCEPT ![g] = Append(@, [i |-> Particles(g)[pk[g]].index, k |-> pk[g]])]
    /\ IF pk[g] < NP(g)
       THEN pk' = [pk EXCEPT ![g] = @ + 1] /\ ppc' = [ppc EXCEPT ![g] = "submit"]
       ELSE pk' = pk /\ ppc' = [ppc EXCEPT ![g] = "pill"]
    /\ UNCHANGED <<inputs, df, mainv, poolv, sem, consv>>

\* a producer that stays at the put of the poison pill
ProducerPillAgain(g) ==
    /\ ppc[g] = "pill"
    /\ Len(q[g]) < args.io_queue_length
    /\ q' = [q EXCEPT ![g] = Append(@, PoisonPill)]
    /\ UNCHANGED <<inputs, df, mainv, poolv, sem, prodv, consv>>

\* lines 444-446: the poison pill
ProducerPill(g) ==
    /\ ppc[g] = "pill"
    /\ Len(q[g]) < args.io_queue_length
    /\ q' = [q EXCEPT ![g] = Append(@, PoisonPill)]
    /\ ppc' = [ppc EXCEPT ![g] = "done"]
    /\ UNCHANGED <<inputs, df, mainv, poolv, sem, pk, consv>>

\* ------------------------------------------------------------ consumer
\* a get that takes the newest entry of the queue
ConsumerGetNewest(g) ==
    /\ cpc[g] = "get"
    /\ q[g] # <<>>
    /\ q' = [q EXCEPT ![g] = SubSeq(@, 1, Len(@) - 1)]
    /\ IF q[g][Len(q[g])].i = -1
       THEN /\ wopen' = [wopen EXCEPT ![g] = FALSE]
            /\ cpc' = [cpc EXCEPT ![g] = "release"]
            /\ cur' = cur
       ELSE /\ cur' = [cur EXCEPT ![g] = q[g][Len(q[g])]]
            /\ cpc' = [cpc EXCEPT ![g] = "result"]
            /\ wopen' = wopen
    /\ UNCHANGED <<inputs, df, mainv, poolv, sem, prodv, written>>

\* lines 454-458: queue.get blocks on an empty queue; the pill breaks the loop
\* and leaving the with block closes the writer
ConsumerGet(g) ==
    /\ cpc[g] = "get"
    /\ q[g] # <<>>
    /\ q' = [q EXCEPT ![g] = Tail(@)]
    /\ IF Head(q[g]).i = -1
       THEN /\ wopen' = [wopen EXCEPT ![g] = FALSE]
            /\ cpc' = [cpc EXCEPT ![g] = "release"]
            /\ cur' = cur
       ELSE /\ cur' = [cur EXCEPT ![g] = Head(q[g])]
            /\ cpc' = [cpc EXCEPT ![g] = "result"]
            /\ wopen' = wopen
    /\ UNCHANGED <<inputs, df, mainv, poolv, sem, prodv, written>>

\* lines 459-464: ri.get() blocks until the result is set; it returns the image,
\* which is written, or re-raises the task's exception, which leaves the with
\* block (closing the writer) and ends the thread before line 465
ConsumerResult(g) ==
    /\ cpc[g] = "result"
    /\ fut[g][cur[g].k].st \in {"ok", "error"}
    /\ IF fut[g][cur[g].k].st = "ok"
       THEN /\ written' = [written EXCEPT ![g] =
                    Append(@, [i |-> cur[g].i, k |-> cur[g].k,
                               rows |-> fut[g][cur[g].k].rows,
                               cols |-> fut[g][cur[g].k].cols])]
            /\ cpc' = [cpc EXCEPT ![g] = "get"]
            /\ wopen' = wopen
       ELSE /\ wopen' = [wopen EXCEPT ![g] = FALSE]
            /\ cpc' = [cpc EXCEPT ![g] = "dead"]
            /\ written' = written
    /\ UNCHANGED <<inputs, df, mainv, poolv, sem, prodv, q, cur>>

\* lines 465-466: iothreads.release()
ConsumerRelease(g) ==
    /\ cpc[g] = "release"
    /\ sem' = sem + 1
    /\ cpc' = [cpc EXCEPT ![g] = "done"]
    /\ UNCHANGED <<inputs, df, mainv, poolv, prodv, q, cur, wopen, written>>

\* ------------------------------------------------------------ worker pool
\* lines 159-161: the initializer, run by every worker thread before its first
\* task, rebinds the global tls to a new threading.local(), on which no thread
\* has an attribute
init(w) ==
    /\ wk[w].st = "new"
    /\ pool \in {"run", "closed"}
    /\ tls' = [v \in Workers |-> {}]
    /\ wk' = [wk EXCEPT ![w] = Idle]
    /\ UNCHANGED <<inputs, df, mainv, pool, taskq, fut, faults, made, sem, prodv, q, consv>>

\* a pool worker takes the oldest task
WorkerTake(w) ==
    /\ wk[w].st = "idle"
    /\ pool \in {"run", "closed"}
    /\ taskq # <<>>
    /\ wk' = [wk EXCEPT ![w] = [st |-> "busy", g |-> Head(taskq)[1], k |-> Head(taskq)[2],
                                ft |-> FALSE]]
    /\ taskq' = Tail(taskq)
    /\ UNCHANGED <<inputs, df, mainv, pool, fut, faults, tls, made, sem, prodv, q, consv>>

\* the image of task (g, k) comes from the reader the producer opened on the
\* source path of the group's first particle (line 427)
ImageSide(g) == side[Particles(g)[1].opath]

\* line 357: clip_img(p1r, p1rmask.shape[0]) * p1rmask
ClipAndMask(g) == Broadcast(clip_img(Shape(ImageSide(g), ImageSide(g)), sz), Shape(sz, sz))

\* the call subtract_outer(p1r, p1rmask_shifted, ptcl, ...) of task (g, k)
KernelCall(g, k) ==
    subtract_outer(ImageSide(g), sz, sz,
                   Particles(g)[k].ox, Particles(g)[k].oy, args.crop)

\* the pool stores a returned image or a raised Exception in the result;
\* SystemExit is not an Exception: it ends the worker thread and the result is
\* never set
Complete(w, res) ==
    IF res.kind = "exit"
    THEN wk' = [wk EXCEPT ![w] = Dead] /\ fut' = fut
    ELSE /\ wk' = [wk EXCEPT ![w] = Idle]
         /\ fut' = [fut EXCEPT ![wk[w].g][wk[w].k] =
                       [st |-> res.kind, rows |-> res.rows, cols |-> res.cols]]

\* lines 353-357: the worker reads tls.ft and clips and masks the image; past
\* this the call builds and runs the transforms
WorkerClip(w) ==
    /\ wk[w].st = "busy"
    /\ IF ClipAndMask(wk[w].g).kind = "ok"
       THEN /\ wk' = [wk EXCEPT ![w].st = "transform", ![w].ft = "ft" \in tls[w]]
            /\ fut' = fut
       ELSE Complete(w, ClipAndMask(wk[w].g))
    /\ UNCHANGED <<inputs, df, mainv, pool, taskq, faults, tls, made, sem, prodv, q, consv>>

\* one more plan built by a thread; 2 stands for "more than once"
Once(n) == IF n < 2 THEN n + 1 ELSE 2

\* lines 359-397: the forward plan is built when the local ft is None, the
\* inverse plan when tls has no ift; then pad, subtract and crop.  fault: an
\* Exception raised inside subtract (line 371), after the forward plan and
\* before the inverse plan.
WorkerFinish(w) ==
    /\ wk[w].st = "transform"
    /\ \E fault \in BOOLEAN :
          /\ fault => faults < MaxFaults
          /\ faults' = IF fault THEN faults + 1 ELSE faults
          /\ LET build_ft == ~wk[w].ft
                 build_ift == ~fault /\ "ift" \notin tls[w]
             IN  /\ tls' = [tls EXCEPT ![w] = @ \cup (IF build_ft THEN {"ft"} ELSE {})
                                                \cup (IF fault THEN {} ELSE {"ift"})]
                 /\ made' = [made EXCEPT
                                ![w].ft = IF build_ft THEN Once(@) ELSE @,
                                ![w].ift = IF build_ift THEN Once(@) ELSE @]
          /\ Complete(w, IF fault THEN Raised ELSE KernelCall(wk[w].g, wk[w].k))
    /\ UNCHANGED <<inputs, df, mainv, pool, taskq, sem, prodv, q, consv>>

\* the pool's handler thread replaces a worker thread that has ended by a new
\* thread, which has built no plan
WorkerRespawn(w) ==
    /\ wk[w].st = "dead"
    /\ pool \in {"run", "closed"}
    /\ wk' = [wk EXCEPT ![w] = New]
    /\ made' = [made EXCEPT ![w] = NoPlans]
    /\ UNCHANGED <<inputs, df, mainv, pool, taskq, fut, faults, tls, sem, prodv, q, consv>>

\* ------------------------------------------------------------ specification
Next ==
    \/ Setup
    \/ CreatePool
    \/ MainAcquire
    \/ MainStartCons
    \/ MainStartProd
    \/ Interrupt
    \/ MainJoinAll
    \/ MainPoolJoin
    \/ \E g \in Groups : ProducerSubmit(g)
    \/ \E g \in Groups : ProducerPut(g)
    \/ \E g \in Groups : ProducerPill(g)
    \/ \E g \in Groups : ConsumerGet(g)
    \/ \E g \in Groups : ConsumerResult(g)
    \/ \E g \in Groups : ConsumerRelease(g)
    \/ \E w \in Workers : init(w)
    \/ \E w \in Workers : WorkerTake(w)
    \/ \E w \in Workers : WorkerClip(w)
    \/ \E w \in Workers : WorkerFinish(w)
    \/ \E w \in Workers : WorkerRespawn(w)

Spec == Init /\ [][Next]_vars

\* ------------------------------------------------------------ one kernel call
\* images of side n: a ramp, a difference pattern, a constant
Image(pat, n) ==
    [r \in 1..n |-> [c \in 1..n |->
        IF pat = "ramp" THEN (r - 1) * n + c ELSE IF pat = "diff" THEN r - c ELSE 1]]

Masks == {<<<<1, 1>>, <<1, 1>>>>, <<<<0, 1>>, <<1, 0>>>>, <<<<0, 0>>, <<0, 0>>>>}

\* the arguments of one call: image, mask, particle, volume (amplitudes are
\* multiples of 4, which the inverse transform divides exactly) and crop
KernelInputs ==
    /\ \E n \in 2..MaxBox, pat \in {"ramp", "diff", "flat"}, mask \in Masks,
          v \in [1..2 -> {-4, 0, 4}], pose \in 1..2, def1 \in {-1, 1, 2},
          o \in {<<0, 0>>, <<1, 0>>, <<0, -1>>, <<1, 1>>}, crop \in {None, <<2>>} :
          call = [pc |-> "called", p1r |-> Image(pat, n), p1rmask |-> mask,
                  ptcl |-> [x |-> o[1], y |-> o[2], pose |-> pose, def1 |-> def1],
                  submap_ft |-> v, crop |-> crop, out |-> None]
    /\ catalog = <<>> /\ sz = 2 /\ side = [p \in Paths |-> 2]
    /\ args = [crop |-> None, io_thread_pairs |-> 1, io_queue_length |-> 1, threads |-> 1]
    /\ AtEntry

\* the call returns
KernelReturn ==
    /\ call # None
    /\ call.pc = "called"
    /\ call' = [call EXCEPT !.pc = "returned",
                            !.out = Pixels(call.p1r, call.p1rmask, call.ptcl,
                                           call.submap_ft, call.crop)]
    /\ UNCHANGED <<catalog, args, sz, side, df, mainv, poolv, sem, prodv, q, consv>>

KernelSpec == KernelInputs /\ [][KernelReturn]_vars

\* ------------------------------------------------------------ properties
Started(g) == cpc[g] # "unstarted" \/ ppc[g] # "unstarted"
Submitted(g) == {k \in 1..NP(g) : fut[g][k].st # "none"}
Indices(rows) == [k \in 1..Len(rows) |-> rows[k].index]
UpTo(n) == [k \in 1..n |-> k - 1]
WrittenIndices(g) == [k \in 1..Len(written[g]) |-> written[g][k].i]

\* nothing can happen any more
Quiescent == ~ENABLED Next

\* every kernel call of the run returns an image
NoKernelFailure ==
    /\ faults = 0
    /\ \A g \in Groups : \A k \in 1..NP(g) : KernelCall(g, k).kind = "ok"

\* the pipelines main has started whose consumer has not released its slot
OpenPipelines == {g \in Groups : Started(g) /\ cpc[g] # "done"}

\* C1: in every reachable state the number of open pipelines (started by main,
\* gate slot not yet released by the consumer) is at most the gate capacity.
C1_GateCapacity == Cardinality(OpenPipelines) <= args.io_thread_pairs

\* capacity 1, three stacks: one pipeline is open after another has released
C1_Witness ==
    /\ args.io_thread_pairs = 1
    /\ NG = 3
    /\ \E g \in Groups, h \in Groups : cpc[g] = "done" /\ h \in OpenPipelines

\* C2: in every destination group the sequence indices are 0..N-1, and a
\* consumer that stopped at the sentinel wrote the indices 0,1,...,N-1 in order.
C2_ContiguousIndices ==
    \A g \in Groups :
        /\ Indices(Particles(g)) = UpTo(NP(g))
        /\ cpc[g] \in {"release", "done"} => WrittenIndices(g) = UpTo(NP(g))

\* C3: when a task of stack A has failed (and nothing else went wrong), the
\* run ends with main returned and every other stack written completely.
C3_OthersUnaffected ==
    (/\ Quiescent
     /\ ~interrupted
     /\ \A g \in Groups : \A k \in 1..NP(g) : KernelCall(g, k).kind = "ok"
     /\ \E a \in Groups : \E k \in 1..NP(a) : fut[a][k].st = "error")
    => /\ mpc = "returned"
       /\ \A a \in Groups :
             (\E k \in 1..NP(a) : fut[a][k].st = "error")
             => \A b \in Groups \ {a} : Len(written[b]) = NP(b)

\* C4: every pipeline main acquired a slot for ends DONE, writer closed and the
\* slot released, also when its consumer stopped on a failed future; then the
\* free-slot count equals the capacity.
C4_EveryPipelineDone ==
    (/\ Quiescent
     /\ ~interrupted
     /\ \A g \in Groups : \A k \in 1..NP(g) : KernelCall(g, k).kind = "ok")
    => /\ \A g \in Groups : Started(g) => cpc[g] = "done" /\ ~wopen[g]
       /\ pool # "none" => sem = args.io_thread_pairs

\* C5: every submitted task has its future completed (with an image or with a
\* failure) by the time the run can make no more progress.
C5_FuturesComplete ==
    Quiescent => \A g \in Groups : \A k \in 1..NP(g) : fut[g][k].st # "pending"

\* C6: when main returns, the status is 0 exactly when every stack holds as
\* many written images as it has particles.
C6_ExitStatus ==
    mpc = "returned" => (status = 0 <=> \A g \in Groups : Len(written[g]) = NP(g))

\* the pre-flight condition, from the catalog as given
C7_TooLarge ==
    /\ args.crop # None
    /\ sz < 2 * RoundHalfEven(Max({Abs(catalog[k].ox) : k \in 1..Len(catalog)}
                                  \cup {Abs(catalog[k].oy) : k \in 1..Len(catalog)}))
            + args.crop[1]

\* C7: if sz < 2*maxshift + crop, main returns 1 and the pool is never created,
\* no thread started, no slot acquired, no task submitted, no image written;
\* otherwise main never returns 1.
C7_PreflightAbort ==
    mpc # "setup" =>
        IF C7_TooLarge
        THEN /\ mpc = "returned" /\ status = 1
             /\ pool = "none" /\ wk = <<>> /\ sem = 0
             /\ \A g \in Groups : /\ ~Started(g)
                                  /\ Submitted(g) = {}
                                  /\ written[g] = <<>>
        ELSE status # 1

C7_Witness == mpc = "returned" /\ status = 1 /\ C7_TooLarge

\* C8: a returned image has shape (crop, crop) when a crop was requested, and
\* the shape of the original image otherwise (even image side >= mask side).
C8_ImageShape ==
    \A g \in Groups : \A k \in 1..NP(g) :
        LET n == ImageSide(g)
        IN  (fut[g][k].st = "ok" /\ n % 2 = 0 /\ n >= sz)
            => IF args.crop # None
               THEN fut[g][k].rows = args.crop[1] /\ fut[g][k].cols = args.crop[1]
               ELSE fut[g][k].rows = n /\ fut[g][k].cols = n

\* C9: once the interrupt has arrived, a running producer submits no new task.
C9_NoSubmitAfterInterrupt ==
    [][\A g \in Groups :
          (interrupted /\ ppc[g] \notin {"unstarted", "done", "dead"})
          => Submitted(g)' = Submitted(g)]_vars

\* C10: after an interrupt in the launch loop (and no kernel failure) the run
\* ends with main returned and no started thread left blocked.
C10_InterruptedRunEnds ==
    (Quiescent /\ interrupted /\ NoKernelFailure)
    => /\ mpc = "returned"
       /\ \A g \in Groups : /\ cpc[g] \in {"unstarted", "done"}
                            /\ ppc[g] \in {"unstarted", "done"}

\* C11: a kernel call whose image side or mask side is odd never gets past the
\* clip: no worker is at the transforms with such a task, and no such task
\* returns an image.
C11_OddFailsBeforeTransform ==
    /\ \A w \in Workers :
          wk[w].st = "transform" => ImageSide(wk[w].g) % 2 = 0 /\ sz % 2 = 0
    /\ \A g \in Groups : \A k \in 1..NP(g) :
          fut[g][k].st = "ok" => ImageSide(g) % 2 = 0 /\ sz % 2 = 0

\* C12: a call with an all-zero volume, no crop and even image and mask sides
\* returns the input image, pixel for pixel, for every pose, shift and mask.
C12_ZeroVolumeRoundTrip ==
    (/\ call.pc = "returned"
     /\ \A i \in 1..2 : call.submap_ft[i] = 0
     /\ call.crop = None
     /\ Len(call.p1r) % 2 = 0 /\ Len(call.p1rmask) % 2 = 0)
    => call.out.kind = "ok" /\ call.out.img = call.p1r

\* a 4 x 4 ramp came back from a call with shift (1, 1) and a zero volume
C12_Witness ==
    /\ call.pc = "returned"
    /\ \A i \in 1..2 : call.submap_ft[i] = 0
    /\ call.crop = None
    /\ call.ptcl.x = 1 /\ call.ptcl.y = 1
    /\ call.p1r = Image("ramp", 4)
    /\ call.out.img = Image("ramp", 4)

\* the particles of a stack (by their position in the stack's group) in the
\* order in which their images were written
WrittenParticles(g) == [j \in 1..Len(written[g]) |-> written[g][j].k]

\* the tasks of a stack that are submitted and whose image is not written
InFlight(g) == Submitted(g) \ {written[g][j].k : j \in 1..Len(written[g])}

\* C13: within a stack the images are written in the order in which the
\* producer submitted their tasks (the order of the stack's rows), whatever the
\* order in which the workers finish them.
C13_WriteOrder == \A g \in Groups : \A j \in 1..Len(written[g]) : WrittenParticles(g)[j] = j

\* the third task of a stack finished before the second, after the first image
\* was written
C13_Witness ==
    \E g \in Groups :
        /\ NP(g) >= 3
        /\ WrittenParticles(g) = <<1>>
        /\ fut[g][2].st = "pending" /\ fut[g][3].st = "ok"

\* C14: a queue of capacity Q holds at most Q entries, and at most Q + 2 tasks
\* of a stack are submitted and not yet written.
C14_Backpressure ==
    \A g \in Groups :
        /\ Len(q[g]) <= args.io_queue_length
        /\ Cardinality(InFlight(g)) <= args.io_queue_length + 2

\* a stack of more than Q + 2 particles with Q entries queued and Q + 2 tasks
\* in flight
C14_Witness ==
    \E g \in Groups :
        /\ NP(g) > args.io_queue_length + 2
        /\ Len(q[g]) = args.io_queue_length
        /\ Cardinality(InFlight(g)) = args.io_queue_length + 2

\* the sentinels in the queue of a stack
Pills(g) == {j \in 1..Len(q[g]) : q[g][j].i = -1}

C16_WriterPosition ==
    \A g \in Groups : \A j \in 1..Len(written[g]) : written[g][j].i = j - 1

\* C17: no worker thread builds its forward plan or its inverse plan more than
\* once.
C17_PlansBuiltOnce == \A w \in Workers : made[w].ft <= 1 /\ made[w].ift <= 1

\* C18: once main has closed the pool every started producer has ended (so no
\* task is submitted any more), and the pool is torn down only when no
\* submitted future is pending.
C18_NoSubmitAfterClose ==
    /\ pool \in {"closed", "terminated"} =>
          \A g \in Groups : ppc[g] \in {"unstarted", "done", "dead"}
    /\ pool = "terminated" => ~Outstanding

\* the pool is closed while a submitted task is still to complete
C18_Witness ==
    /\ pool = "closed"
    /\ Outstanding
    /\ \E g \in Groups : ppc[g] = "done"

\* C19: without a task failure and without an interrupt, a run that passed the
\* crop test does not stop before the end: when nothing can happen any more,
\* main has returned 0, every stack is written completely, both threads of
\* every pipeline have ended and every slot is free.
C19_NoDeadlock ==
    (/\ Quiescent
     /\ ~interrupted
     /\ NoKernelFailure
     /\ ~C7_TooLarge)
    => /\ mpc = "returned" /\ status = 0
       /\ \A g \in Groups : /\ Len(written[g]) = NP(g)
                            /\ ppc[g] = "done" /\ cpc[g] = "done"
       /\ sem = args.io_thread_pairs

\* C20: the image of every submitted task was read from the particle's own
\* source stack at the particle's own source index.
C20_OwnImage ==
    \A g \in Groups : \A k \in Submitted(g) :
        ImageRead(g, k) = <<Particles(g)[k].opath, Particles(g)[k].oidx>>

====
